---- MODULE Spec2Model ----
(***************************************************************************)
(* The response-safety pipeline of the refrigerator sales assistant:       *)
(* SecureSalesAssistant.chat and CreativeResponseHandler (api.py), the     *)
(* SessionManager and the REST handlers (fast_api.py), and the single      *)
(* assistant the Streamlit front end keeps (frontend.py).                  *)
(*                                                                         *)
(* Texts are strings.  The collaborators (the Guardrails detectors, the    *)
(* retrieval chain, the language model) are outside the repository: they   *)
(* are modelled at their interface, their results drawn with \E.           *)
(***************************************************************************)
EXTENDS Integers, Sequences, FiniteSets, TLC

VARIABLES
  HUB_VALIDATORS_AVAILABLE, \* api.py: set once, when the module is imported
  sessions,                 \* SessionManager.sessions: session id -> assistant
  message_counts,           \* SessionManager.message_counts: session id -> count
  bot,                      \* one assistant used directly through its methods
  turn,                     \* what the last chat() or clear_memory() call did
  request,                  \* the last REST request and its response
  started,                  \* chat turns started so far (the bounded runs count them)
  loop,                     \* the event loop of the REST server: requests that
                            \* wait for their handler, and turns in progress
  selections                \* the declines selected on the assistant under
                            \* study since it was made or last cleared, in
                            \* order (kept for the properties of the history)

vars ==
  << HUB_VALIDATORS_AVAILABLE, sessions, message_counts, bot, turn, request,
     started, loop, selections >>

----------------------------------------------------------------------------
(* Text helpers: str.lower() and the `in` substring test of Python.         *)

Range(s) == { s[i] : i \in 1..Len(s) }

\* the letters str.lower() changes in the texts used here (ASCII)
LowerOf ==
  [ A |-> "a", B |-> "b", C |-> "c", D |-> "d", E |-> "e", F |-> "f",
    G |-> "g", H |-> "h", I |-> "i", J |-> "j", K |-> "k", L |-> "l",
    M |-> "m", N |-> "n", O |-> "o", P |-> "p", Q |-> "q", R |-> "r",
    S |-> "s", T |-> "t", U |-> "u", V |-> "v", W |-> "w", X |-> "x",
    Y |-> "y", Z |-> "z" ]

LowerChar(c) == IF c \in DOMAIN LowerOf THEN LowerOf[c] ELSE c

RECURSIVE Lower(_)
Lower(s) ==
  IF Len(s) = 0 THEN ""
  ELSE IF Len(s) = 1 THEN LowerChar(s)
  ELSE LET half == Len(s) \div 2
       IN  Lower(SubSeq(s, 1, half)) \o Lower(SubSeq(s, half + 1, Len(s)))

\* needle in text
Contains(text, needle) ==
  \E i \in 1..(Len(text) - Len(needle) + 1) :
     SubSeq(text, i, i + Len(needle) - 1) = needle

\* text.replace(span, mark)
RECURSIVE Replace(_, _, _)
Replace(text, span, mark) ==
  IF ~Contains(text, span) THEN text
  ELSE LET i == CHOOSE j \in 1..(Len(text) - Len(span) + 1) :
                   /\ SubSeq(text, j, j + Len(span) - 1) = span
                   /\ \A k \in 1..(j - 1) : SubSeq(text, k, k + Len(span) - 1) # span
       IN  SubSeq(text, 1, i - 1) \o mark
             \o Replace(SubSeq(text, i + Len(span), Len(text)), span, mark)

----------------------------------------------------------------------------
(* api.py: the response templates.                                          *)

DECLINE_RESPONSES ==
  [ confidential_info |-> <<
      "I appreciate your curiosity, but that information is confidential and outside my area of expertise. However, I'm a refrigerator specialist! Let me help you find the perfect cooling solution for your needs. What capacity are you looking for?",
      "That's actually not something I have access to - my expertise is specifically in our refrigerator products. But here's what I CAN help you with: finding the ideal refrigerator for your space, budget, and lifestyle. What matters most to you - energy efficiency, capacity, or smart features?",
      "I'm not authorized to discuss internal company matters, but I'm your go-to person for everything refrigerator-related! Whether you need help comparing models, understanding features, or finding the best fit for your budget, I'm here. What brings you shopping for a refrigerator today?",
      "That falls outside my scope - I focus exclusively on helping customers find their perfect refrigerator. Think of me as your personal cooling consultant! Tell me about your kitchen space and family size, and I'll suggest some great options.",
      "I can't help with that particular request, but what I CAN do is match you with a refrigerator that'll make your life easier! Are you looking for something compact, family-sized, or perhaps a premium model with all the bells and whistles?"
    >>,
    pii_detected |-> <<
      "I noticed some sensitive information in your message. For your privacy and security, I can't process requests containing personal details like that. But let's focus on finding you an amazing refrigerator! What's your budget range?",
      "Hold on - I spotted some personal information that I should skip over for your protection. No worries though! Let's talk about refrigerators instead. Are you upgrading an old unit or buying your first one?",
      "For security reasons, I need to avoid processing personal information like that. But here's what we CAN discuss: our incredible range of refrigerators from compact to commercial! What size space are we working with?",
      "I see some sensitive data in your message - let's keep things secure by focusing on what I do best: helping you choose the right refrigerator! Do you prefer traditional models or are you interested in smart features?"
    >>,
    toxic_language |-> <<
      "I understand you might be frustrated, and I'm here to help make things better. Let's start fresh - what kind of refrigerator would make your day? I promise to find you some great options!",
      "I hear your frustration. Let me turn this around for you - finding the right refrigerator can actually be exciting! Tell me what disappointed you before, and I'll make sure we avoid that this time.",
      "I appreciate your honesty, even if emotions are running high. How about we channel that energy into finding you a fantastic refrigerator? What's your dream feature - ice maker, huge capacity, or maybe sleek smart controls?",
      "Let's keep our conversation positive and productive. I genuinely want to help you find a refrigerator you'll love. What's most important to you - price, features, or brand quality?"
    >>,
    off_topic |-> <<
      "That's an interesting question, but it's a bit outside my refrigerator expertise! I'm laser-focused on helping you find the perfect cooling solution. Speaking of which, have you considered what capacity you need?",
      "I'm flattered you'd ask, but my specialty is refrigerators through and through! Let me wow you with our product range instead. Are you team side-by-side or team French door?",
      "While I appreciate the diverse conversation, refrigerators are truly my passion! And I'd love to share that passion with you. What's your current refrigerator situation - time for an upgrade?",
      "That's outside my wheelhouse, but you know what IS in my wheelhouse? Helping you find a refrigerator that fits your life perfectly! Budget-friendly or premium - what's your vibe?"
    >> ]

CONVERSATION_STARTERS ==
  << "Great question! Let me help you with that.",
     "I'm glad you asked! Here's what I can tell you:",
     "Excellent choice to explore this! Let me explain:",
     "Perfect timing - I love talking about this!",
     "That's a popular question! Here's the scoop:",
     "I'm excited to help you with this!",
     "Let me break this down for you:",
     "Good thinking! Here's what you should know:" >>

\* api.py: CreativeResponseHandler.__init__, self.max_history
max_history == 10

\* api.py: get_varied_decline looks at response_history[-5:]
RECENT_WINDOW == 5

----------------------------------------------------------------------------
(* Bounds of the model and the sample inputs.                               *)

MaxExchanges == 2   \* a turn starts only while the memory holds fewer exchanges
MaxDeclines  == 2   \* a turn starts only while the history holds fewer declines
MaxStarters  == 2   \* random.choice draws among the first MaxStarters starters
MaxRun       == 6   \* length of a run of declines of one category (SpecRun)
MaxServed    == 2   \* chat turns the REST process serves (Spec)
MaxSelections == 11 \* declines selected on one handler (SpecHistory, SpecShared)

\* What users type.  Upper case, keywords inside longer words, PII and
\* toxic words are all present, alone and combined with a keyword; one
\* toxic text names PII without holding any.
Queries ==
  { "hello",
    "Admin login",
    "mail bob@x.io",
    "you idiot",
    "secret of bob@x.io",
    "idiot server",
    "idiot sells PII" }

\* What the language model answers.
Answers == { "Hi there", "Ask bob@x.io" }

\* What a failing retrieval or generation call raises.
ChainErrors == { "retrieval error", "engine error", "engine timeout" }

\* What a detector that breaks down raises.
CrashMessages == { "Connection error." }

----------------------------------------------------------------------------
(* The Guardrails Hub detectors, at their interface.  DetectPII finds the   *)
(* entities below and, told to fix, replaces each by its entity tag;        *)
(* ToxicLanguage finds the words below.  Told to raise, each raises a       *)
(* validation error whose text names the finding and quotes the input.      *)

PII_ENTITIES == { [span |-> "bob@x.io", tag |-> "<EMAIL_ADDRESS>"] }
TOXIC_WORDS  == { "idiot" }

DetectPII_finds(text) == { e \in PII_ENTITIES : Contains(text, e.span) }

ToxicLanguage_finds(text) == { w \in TOXIC_WORDS : Contains(Lower(text), w) }

Fires(validator, text) ==
  CASE validator.name = "DetectPII"     -> DetectPII_finds(text) # {}
    [] validator.name = "ToxicLanguage" -> ToxicLanguage_finds(text) # {}

ErrorMessage(validator, text) ==
  CASE validator.name = "DetectPII" ->
         "Validation failed for field with errors: The following text in your response contains PII: " \o text
    [] validator.name = "ToxicLanguage" ->
         "Validation failed for field with errors: The following sentences in your response were found to be toxic: " \o text

RECURSIVE Redact(_, _)
Redact(text, entities) ==
  IF entities = {} THEN text
  ELSE LET e == CHOOSE x \in entities : TRUE
       IN  Redact(Replace(text, e.span, e.tag), entities \ {e})

RECURSIVE Blank(_, _)
Blank(text, words) ==
  IF words = {} THEN text
  ELSE LET w == CHOOSE x \in words : TRUE
       IN  Blank(Replace(text, w, ""), words \ {w})

FixValue(validator, text) ==
  CASE validator.name = "DetectPII"     -> Redact(text, DetectPII_finds(text))
    [] validator.name = "ToxicLanguage" -> Blank(text, ToxicLanguage_finds(text))

\* Guard.validate: the validators run in order; one that fires raises
\* (on_fail = "exception") or rewrites the text (on_fail = "fix").
RECURSIVE RunValidators(_, _)
RunValidators(validators, text) ==
  IF validators = <<>>
    THEN [raised |-> FALSE, message |-> "", validated_output |-> text]
  ELSE LET v == Head(validators)
       IN  IF ~Fires(v, text) THEN RunValidators(Tail(validators), text)
           ELSE IF v.on_fail = "exception"
             THEN [raised |-> TRUE, message |-> ErrorMessage(v, text),
                   validated_output |-> ""]
             ELSE RunValidators(Tail(validators), FixValue(v, text))

\* Every way guard.validate(text) can end: what the detectors decide, or,
\* when there are detectors, one of them breaking down.
GuardValidate(validators, text) ==
  { RunValidators(validators, text) }
    \cup IF validators = <<>> THEN {}
         ELSE { [raised |-> TRUE, message |-> m, validated_output |-> ""] :
                  m \in CrashMessages }

\* api.py: setup_guardrails
setup_guardrails ==
  IF HUB_VALIDATORS_AVAILABLE
    THEN [ input_validators |->
             << [name |-> "DetectPII", on_fail |-> "exception"],
                [name |-> "ToxicLanguage", on_fail |-> "exception"] >>,
           output_validators |->
             << [name |-> "DetectPII", on_fail |-> "fix"],
                [name |-> "ToxicLanguage", on_fail |-> "fix"] >> ]
    ELSE [ input_validators |-> <<>>, output_validators |-> <<>> ]

----------------------------------------------------------------------------
(* api.py: CreativeResponseHandler                                         *)

LastN(s, n) == SubSeq(s, IF Len(s) > n THEN Len(s) - n + 1 ELSE 1, Len(s))

PoolOf(category) ==
  IF category \in DOMAIN DECLINE_RESPONSES
    THEN DECLINE_RESPONSES[category]
    ELSE DECLINE_RESPONSES["off_topic"]

\* (mutant) the recent responses are not left out
available_responses_no_window(response_history, category) == PoolOf(category)

\* (mutant) only the response before this one is left out
available_responses_last_only(response_history, category) ==
  LET recent == Range(LastN(response_history, 1))
      avail  == SelectSeq(PoolOf(category), LAMBDA resp : resp \notin recent)
  IN  IF avail = <<>> THEN PoolOf(category) ELSE avail

\* (mutant) only the last three responses are left out
available_responses_window_three(response_history, category) ==
  LET recent == Range(LastN(response_history, 3))
      avail  == SelectSeq(PoolOf(category), LAMBDA resp : resp \notin recent)
  IN  IF avail = <<>> THEN PoolOf(category) ELSE avail

\* the list random.choice draws from
available_responses(response_history, category) ==
  LET recent == Range(LastN(response_history, RECENT_WINDOW))
      avail  == SelectSeq(PoolOf(category), LAMBDA resp : resp \notin recent)
  IN  IF avail = <<>> THEN PoolOf(category) ELSE avail

\* (mutant) the history is never cut
remember_unbounded(response_history, selected) ==
  Append(response_history, selected)

\* (mutant) a full history drops the response just appended
remember_dropping_newest(response_history, selected) ==
  LET h == Append(response_history, selected)
  IN  IF Len(h) > max_history THEN SubSeq(h, 1, max_history) ELSE h

\* response_history after selected was appended
remember(response_history, selected) ==
  LET h == Append(response_history, selected)
  IN  IF Len(h) > max_history THEN Tail(h) ELSE h

\* get_varied_decline: every (selected, response_history') it can produce
get_varied_decline(response_history, category) ==
  { [selected |-> s, response_history |-> remember(response_history, s)] :
      s \in Range(available_responses(response_history, category)) }

\* get_conversation_starter: every starter it can return
get_conversation_starter ==
  { CONVERSATION_STARTERS[i] :
      i \in 1..(IF MaxStarters < Len(CONVERSATION_STARTERS)
                  THEN MaxStarters ELSE Len(CONVERSATION_STARTERS)) }

----------------------------------------------------------------------------
(* api.py: SecureSalesAssistant                                            *)

\* __init__: the guards of setup_guardrails, an empty
\* ConversationBufferMemory and a new CreativeResponseHandler
NewAssistant ==
  [ input_validators  |-> setup_guardrails.input_validators,
    output_validators |-> setup_guardrails.output_validators,
    memory            |-> <<>>,
    response_history  |-> <<>> ]

confidential_keywords ==
  << "api key", "password", "secret", "credential", "token",
     "employee", "salary", "internal", "confidential", "private",
     "database", "system", "admin", "backend", "server" >>

\* (mutant) the query is matched as typed, not lower-cased
detect_query_intent_case_sensitive(query) ==
  IF \E i \in 1..Len(confidential_keywords) :
        Contains(query, confidential_keywords[i])
    THEN "confidential_info"
    ELSE "normal"

_detect_query_intent(query) ==
  LET query_lower == Lower(query)
  IN  IF \E i \in 1..Len(confidential_keywords) :
            Contains(query_lower, confidential_keywords[i])
        THEN "confidential_info"
        ELSE "normal"

\* the fixed reply of the except branch around the chain call
FALLBACK_MESSAGE ==
  "I hit a small snag processing that request. Could you rephrase what you're looking for? I'm here to help you find the perfect refrigerator!"

\* (mutant) the reply of the except branch quotes the exception
fallback_reply_quoting_error(e) == FALLBACK_MESSAGE \o " (" \o e \o ")"

\* the value the except branch around the chain call returns for the
\* exception e
fallback_reply(e) == FALLBACK_MESSAGE

\* (mutant) only the answer is saved
save_context_answer_only(memory, question, answer) ==
  memory \o << [role |-> "assistant", text |-> answer] >>

\* (mutant) a window memory: only the last exchange is kept
save_context_keeping_window(memory, question, answer) ==
  << [role |-> "user", text |-> question],
     [role |-> "assistant", text |-> answer] >>

\* ConversationBufferMemory.save_context: the question and the answer of
\* the chain are appended when the chain call returns.
save_context(memory, question, answer) ==
  memory \o << [role |-> "user", text |-> question],
               [role |-> "assistant", text |-> answer] >>

\* (mutant) the question is saved before the engines are called
chain_saving_question_first(memory, question) ==
  { [ ok |-> TRUE, answer |-> a, error |-> "",
      retrieval_calls |-> 1, generation_calls |-> 1,
      memory |-> memory \o << [role |-> "user", text |-> question],
                              [role |-> "assistant", text |-> a] >> ] :
      a \in Answers }
  \cup
  { [ ok |-> FALSE, answer |-> "", error |-> e,
      retrieval_calls |-> 1,
      generation_calls |-> IF e = "retrieval error" THEN 0 ELSE 1,
      memory |-> memory \o << [role |-> "user", text |-> question] >> ] :
      e \in ChainErrors }

\* self.chain({"question": q}): every way the call can end.  The chain was
\* built with memory = self.memory, so a call that returns has already
\* saved its question and its answer; a call that raises saves nothing.
chain(memory, question) ==
  { [ ok |-> TRUE, answer |-> a, error |-> "",
      retrieval_calls |-> 1, generation_calls |-> 1,
      memory |-> save_context(memory, question, a) ] : a \in Answers }
  \cup
  { [ ok |-> FALSE, answer |-> "", error |-> e,
      retrieval_calls |-> 1,
      generation_calls |-> IF e = "retrieval error" THEN 0 ELSE 1,
      memory |-> memory ] : e \in ChainErrors }

\* the branch on str(e).lower() in the except clause of Step 1
input_error_category(message) ==
  LET error_type == Lower(message)
  IN  IF Contains(error_type, "pii") THEN "pii_detected"
      ELSE IF Contains(error_type, "toxic") THEN "toxic_language"
      ELSE "off_topic"

\* The operators above on the sample inputs, computed once.
ValidatorLists ==
  { <<>>,
    << [name |-> "DetectPII", on_fail |-> "exception"],
       [name |-> "ToxicLanguage", on_fail |-> "exception"] >>,
    << [name |-> "DetectPII", on_fail |-> "fix"],
       [name |-> "ToxicLanguage", on_fail |-> "fix"] >> }

Responses ==
  Answers \cup { CONVERSATION_STARTERS[i] \o " " \o a :
                   i \in 1..Len(CONVERSATION_STARTERS), a \in Answers }

IntentOf == [ q \in Queries |-> _detect_query_intent(q) ]

VerdictsOf ==
  [ vs \in ValidatorLists |->
      [ text \in Queries \cup Responses |-> GuardValidate(vs, text) ] ]

CategoryOf ==
  [ m \in UNION { { v.message : v \in VerdictsOf[vs][q] } :
                    vs \in ValidatorLists, q \in Queries } |->
      input_error_category(m) ]

\* the record of a turn that has only started
StartedTurn(b, user_query) ==
  [ op |-> "chat", query |-> user_query,
    intent |-> IntentOf[user_query],
    input_validate_calls |-> 0, input_error |-> "",
    retrieval_calls |-> 0, generation_calls |-> 0,
    chain_called |-> FALSE, chain_history |-> <<>>,
    answer |-> "", chain_error |-> "",
    starter |-> "", response |-> "",
    output_validate_calls |-> 0, output_error |-> "",
    outcome |-> "none", category |-> "", reply |-> "",
    memory_before |-> b.memory, history_before |-> b.response_history ]

\* (mutant) the decline is returned and the handler's history is not kept
Declined_forgetting_selection(b, t, category) ==
  { [ bot  |-> b,
      turn |-> [t EXCEPT !.outcome = "Declined", !.category = category,
                         !.reply = d.selected] ] :
      d \in get_varied_decline(b.response_history, category) }

\* return self.response_handler.get_varied_decline(category)
Declined(b, t, category) ==
  { [ bot  |-> [b EXCEPT !.response_history = d.response_history],
      turn |-> [t EXCEPT !.outcome = "Declined", !.category = category,
                         !.reply = d.selected] ] :
      d \in get_varied_decline(b.response_history, category) }

\* (mutant) the except branch of Step 4 returns the response as it is
OutputStep_returning_response(b, t, response) ==
  { [ bot  |-> b,
      turn |-> [t EXCEPT !.output_validate_calls = 1,
                         !.output_error = o.message,
                         !.outcome = "Delivered",
                         !.reply = IF o.raised THEN response
                                   ELSE o.validated_output] ] :
      o \in GuardValidate(b.output_validators, response) }

\* (mutant) Step 4 without its try: the exception of the output guard
\* leaves chat
OutputStep_propagating(b, t, response) ==
  { [ bot  |-> b,
      turn |-> IF o.raised
                 THEN [t EXCEPT !.output_validate_calls = 1,
                                !.output_error = o.message,
                                !.outcome = "Raised"]
                 ELSE [t EXCEPT !.output_validate_calls = 1,
                                !.outcome = "Delivered",
                                !.reply = o.validated_output] ] :
      o \in GuardValidate(b.output_validators, response) }

\* (mutant) a decline of Step 4 keeps the starter drawn in Step 3
OutputStep_declining_with_starter(b, t, response) ==
  UNION { IF o.raised
            THEN { [ bot  |-> d.bot,
                     turn |-> [d.turn EXCEPT
                                 !.reply = IF t.starter = "" THEN @
                                           ELSE t.starter \o " " \o @] ] :
                   d \in Declined(b, [t EXCEPT !.output_validate_calls = 1,
                                               !.output_error = o.message],
                                  "off_topic") }
            ELSE { [ bot  |-> b,
                     turn |-> [t EXCEPT !.output_validate_calls = 1,
                                        !.outcome = "Delivered",
                                        !.reply = o.validated_output] ] } :
          o \in GuardValidate(b.output_validators, response) }

\* Step 4 of chat: the output guard on the response
OutputStep(b, t, response) ==
  UNION { IF o.raised
            THEN Declined(b, [t EXCEPT !.output_validate_calls = 1,
                                       !.output_error = o.message],
                          "off_topic")
            ELSE { [ bot  |-> b,
                     turn |-> [t EXCEPT !.output_validate_calls = 1,
                                        !.outcome = "Delivered",
                                        !.reply = o.validated_output] ] } :
          o \in VerdictsOf[b.output_validators][response] }

\* (mutant) the starter drawn in Step 3 is kept in the decline history
GenerationStep_remembering_starter(b, t, safe_query) ==
  UNION { LET t1 == [t EXCEPT !.chain_called = TRUE,
                              !.chain_history = b.memory,
                              !.retrieval_calls = r.retrieval_calls,
                              !.generation_calls = r.generation_calls,
                              !.answer = r.answer,
                              !.chain_error = r.error]
              b1 == [b EXCEPT !.memory = r.memory]
          IN  IF ~r.ok
                THEN { [ bot  |-> b1,
                         turn |-> [t1 EXCEPT !.outcome = "FallbackDelivered",
                                             !.reply = fallback_reply(r.error)] ] }
                ELSE OutputStep(b1, [t1 EXCEPT !.response = r.answer], r.answer)
                     \cup
                     UNION { OutputStep([b1 EXCEPT !.response_history =
                                            remember(b.response_history, starter)],
                                        [t1 EXCEPT !.starter = starter,
                                                   !.response = starter \o " " \o r.answer],
                                        starter \o " " \o r.answer) :
                             starter \in get_conversation_starter } :
          r \in chain(b.memory, safe_query) }

\* Step 3 of chat: the chain, then a starter 30% of the time
GenerationStep(b, t, safe_query) ==
  UNION { LET t1 == [t EXCEPT !.chain_called = TRUE,
                              !.chain_history = b.memory,
                              !.retrieval_calls = r.retrieval_calls,
                              !.generation_calls = r.generation_calls,
                              !.answer = r.answer,
                              !.chain_error = r.error]
              b1 == [b EXCEPT !.memory = r.memory]
          IN  IF ~r.ok
                THEN { [ bot  |-> b1,
                         turn |-> [t1 EXCEPT !.outcome = "FallbackDelivered",
                                             !.reply = fallback_reply(r.error)] ] }
                ELSE OutputStep(b1, [t1 EXCEPT !.response = r.answer], r.answer)
                     \cup
                     UNION { OutputStep(b1,
                                        [t1 EXCEPT !.starter = starter,
                                                   !.response = starter \o " " \o r.answer],
                                        starter \o " " \o r.answer) :
                             starter \in get_conversation_starter } :
          r \in chain(b.memory, safe_query) }

\* (mutant) the chain is called whatever the input guard said
chat_ignoring_input_verdict(b, user_query) ==
  LET t0 == StartedTurn(b, user_query)
  IN  UNION { GenerationStep(b, [t0 EXCEPT !.input_validate_calls = 1,
                                           !.input_error = v.message],
                             user_query) :
              v \in VerdictsOf[b.input_validators][user_query] }

\* chat(user_query) on assistant b: every (assistant after, turn record)
chat(b, user_query) ==
  LET t0 == StartedTurn(b, user_query)
  IN  UNION { LET t1 == [t0 EXCEPT !.input_validate_calls = 1,
                                   !.input_error = v.message]
              IN  IF v.raised
                    THEN Declined(b, t1, CategoryOf[v.message])
                  ELSE IF t0.intent = "confidential_info"
                    THEN Declined(b, t1, "confidential_info")
                  ELSE GenerationStep(b, t1, v.validated_output) :
              v \in VerdictsOf[b.input_validators][user_query] }

\* clear_memory
clear_memory(b) == [b EXCEPT !.memory = <<>>, !.response_history = <<>>]

----------------------------------------------------------------------------
(* One assistant and a caller of its methods.                              *)

NoTurn ==
  [ op |-> "none", query |-> "", intent |-> "",
    input_validate_calls |-> 0, input_error |-> "",
    retrieval_calls |-> 0, generation_calls |-> 0,
    chain_called |-> FALSE, chain_history |-> <<>>,
    answer |-> "", chain_error |-> "",
    starter |-> "", response |-> "",
    output_validate_calls |-> 0, output_error |-> "",
    outcome |-> "none", category |-> "", reply |-> "",
    memory_before |-> <<>>, history_before |-> <<>> ]

NoBot == "none"

\* a request: its arrival number, endpoint, session id and message
NoArrival == [ id |-> 0, endpoint |-> "none", session_id |-> "", message |-> "" ]

\* an event loop with no request waiting and no turn in progress
NoLoop == [ pending |-> {}, inflight |-> {}, last_started |-> NoArrival ]

NoRequest ==
  [ endpoint |-> "none", session_id |-> "", status |-> 0,
    message_count |-> 0, listed |-> {}, cleared |-> NoBot ]

InitAssistant ==
  /\ HUB_VALIDATORS_AVAILABLE \in BOOLEAN
  /\ sessions = <<>>
  /\ message_counts = <<>>
  /\ bot = NewAssistant
  /\ turn = NoTurn
  /\ request = NoRequest
  /\ started = 0
  /\ loop = NoLoop
  /\ selections = <<>>

WithinBounds(b) ==
  /\ Len(b.memory) < 2 * MaxExchanges
  /\ Len(b.response_history) < MaxDeclines

BotChat(user_query) ==
  /\ WithinBounds(bot)
  /\ \E r \in chat(bot, user_query) :
       /\ bot' = r.bot
       /\ turn' = r.turn
  /\ UNCHANGED << selections, loop, HUB_VALIDATORS_AVAILABLE, sessions, message_counts, request, started >>

BotClear ==
  /\ bot' = clear_memory(bot)
  /\ turn' = [NoTurn EXCEPT !.op = "clear",
                            !.memory_before = bot.memory,
                            !.history_before = bot.response_history]
  /\ UNCHANGED << selections, loop, HUB_VALIDATORS_AVAILABLE, sessions, message_counts, request, started >>

NextAssistant ==
  \/ \E q \in Queries : BotChat(q)
  \/ BotClear

SpecAssistant == InitAssistant /\ [][NextAssistant]_vars

----------------------------------------------------------------------------
(* fast_api.py: SessionManager and the REST handlers.  A handler is an     *)
(* async function that never awaits, so the event loop runs each request   *)
(* to its end before it starts the next: one action per request.           *)

EmptyMap == [ x \in {} |-> 0 ]

Put(map, key, value) ==
  [ x \in DOMAIN map \cup {key} |-> IF x = key THEN value ELSE map[x] ]

Remove(map, key) == [ x \in DOMAIN map \ {key} |-> map[x] ]

\* the session ids callers send, the ids os.urandom yields for those who
\* send none, and the id /test-security uses
CallerIds     == { "s1" }
GeneratedIds  == { "session_00" }
TestSessionId == "test_session"
NoSessionId   == ""
SessionIds    == CallerIds \cup GeneratedIds \cup {TestSessionId}

\* messages sent to the REST endpoints
RestQueries == { "hello", "Admin login" }

\* SessionManager.get_message_count
get_message_count(counts, session_id) ==
  IF session_id \in DOMAIN counts THEN counts[session_id] ELSE 0

\* (mutant) the count is set to 1 on every message
increment_message_count_restarting(counts, session_id) ==
  Put(counts, session_id, 1)

\* SessionManager.increment_message_count
increment_message_count(counts, session_id) ==
  IF session_id \in DOMAIN counts
    THEN Put(counts, session_id, counts[session_id] + 1)
    ELSE Put(counts, session_id, 1)

\* SessionManager.get_or_create_session, the assistant being constructed
\* without error
get_or_create_session(s, counts, session_id) ==
  IF session_id \notin DOMAIN s
    THEN [ sessions |-> Put(s, session_id, NewAssistant),
           message_counts |-> Put(counts, session_id, 0) ]
    ELSE [ sessions |-> s, message_counts |-> counts ]

\* (mutant) the session is registered before its assistant is constructed
get_or_create_session_registering_first(s, counts, session_id) ==
  [ sessions |-> Put(s, session_id, NewAssistant),
    message_counts |-> Put(counts, session_id, 0) ]

\* SessionManager.get_or_create_session for a session id that is not
\* registered, ensure_catalog_exists or the constructor of the assistant
\* raising: the exception leaves before either assignment
get_or_create_session_raising(s, counts, session_id) ==
  [ sessions |-> s, message_counts |-> counts ]

\* (mutant) the memory is cleared but the assistant stays registered
clear_session_keeping_assistant(s, counts, session_id) ==
  IF session_id \in DOMAIN s
    THEN [ sessions |-> Put(s, session_id,
                            [s[session_id] EXCEPT !.memory = <<>>]),
           message_counts |-> Put(counts, session_id, 0),
           cleared |-> clear_memory(s[session_id]),
           result |-> TRUE ]
    ELSE [ sessions |-> s, message_counts |-> counts,
           cleared |-> NoBot, result |-> FALSE ]

\* (mutant) clearing one session empties the whole registry
clear_session_clearing_all(s, counts, session_id) ==
  IF session_id \in DOMAIN s
    THEN [ sessions |-> EmptyMap,
           message_counts |-> [ x \in DOMAIN counts \cup {session_id} |-> 0 ],
           cleared |-> clear_memory(s[session_id]),
           result |-> TRUE ]
    ELSE [ sessions |-> s, message_counts |-> counts,
           cleared |-> NoBot, result |-> FALSE ]

\* (mutant) the count of an id that is not registered is reset as well
clear_session_resetting_unknown(s, counts, session_id) ==
  IF session_id \in DOMAIN s
    THEN [ sessions |-> Remove(s, session_id),
           message_counts |-> Put(counts, session_id, 0),
           cleared |-> clear_memory(s[session_id]),
           result |-> TRUE ]
    ELSE [ sessions |-> s, message_counts |-> Put(counts, session_id, 0),
           cleared |-> NoBot, result |-> FALSE ]

\* SessionManager.clear_session
clear_session(s, counts, session_id) ==
  IF session_id \in DOMAIN s
    THEN [ sessions |-> Remove(s, session_id),
           message_counts |-> Put(counts, session_id, 0),
           cleared |-> clear_memory(s[session_id]),
           result |-> TRUE ]
    ELSE [ sessions |-> s, message_counts |-> counts,
           cleared |-> NoBot, result |-> FALSE ]

\* (mutant) the listing walks the counts, not the registry
list_sessions_from_counts(s, counts) ==
  { [ session_id |-> sid, message_count |-> counts[sid], active |-> TRUE ] :
      sid \in DOMAIN counts }

\* SessionManager.list_sessions
list_sessions(s, counts) ==
  { [ session_id |-> sid, message_count |-> get_message_count(counts, sid),
      active |-> TRUE ] : sid \in DOMAIN s }

InitRest ==
  /\ HUB_VALIDATORS_AVAILABLE \in BOOLEAN
  /\ sessions = EmptyMap
  /\ message_counts = EmptyMap
  /\ bot = NoBot
  /\ turn = NoTurn
  /\ request = NoRequest
  /\ started = 0
  /\ loop = NoLoop
  /\ selections = <<>>

\* POST /chat whose assistant, when one is needed, is constructed
PostChat(requested_id, message) ==
  /\ started < MaxServed
  /\ \E session_id \in IF requested_id = NoSessionId
                         THEN GeneratedIds \ DOMAIN sessions
                         ELSE {requested_id} :
       LET g == get_or_create_session(sessions, message_counts, session_id)
       IN  \E r \in chat(g.sessions[session_id], message) :
             LET counts == increment_message_count(g.message_counts, session_id)
             IN  /\ sessions' = Put(g.sessions, session_id, r.bot)
                 /\ message_counts' = counts
                 /\ turn' = r.turn
                 /\ request' = [ endpoint |-> "POST /chat",
                                 session_id |-> session_id, status |-> 200,
                                 message_count |-> get_message_count(counts, session_id),
                                 listed |-> {}, cleared |-> NoBot ]
  /\ started' = started + 1
  /\ UNCHANGED << selections, loop, HUB_VALIDATORS_AVAILABLE, bot >>

\* POST /chat for a new session id whose assistant cannot be constructed:
\* the exception is answered with status 500
PostChatConstructionFails(requested_id) ==
  /\ \E session_id \in IF requested_id = NoSessionId
                         THEN GeneratedIds \ DOMAIN sessions
                         ELSE {requested_id} :
       /\ session_id \notin DOMAIN sessions
       /\ LET g == get_or_create_session_raising(sessions, message_counts,
                                                 session_id)
          IN  /\ sessions' = g.sessions
              /\ message_counts' = g.message_counts
       /\ request' = [ endpoint |-> "POST /chat", session_id |-> session_id,
                       status |-> 500, message_count |-> 0, listed |-> {}, cleared |-> NoBot ]
  /\ turn' = NoTurn
  /\ UNCHANGED << selections, loop, HUB_VALIDATORS_AVAILABLE, bot, started >>

\* POST /test-security: the shared session "test_session", no count
PostTestSecurity(message) ==
  /\ started < MaxServed
  /\ LET session_id == TestSessionId
         g == get_or_create_session(sessions, message_counts, session_id)
     IN  \E r \in chat(g.sessions[session_id], message) :
           /\ sessions' = Put(g.sessions, session_id, r.bot)
           /\ message_counts' = g.message_counts
           /\ turn' = r.turn
           /\ request' = [ endpoint |-> "POST /test-security",
                           session_id |-> session_id, status |-> 200,
                           message_count |-> 0, listed |-> {}, cleared |-> NoBot ]
  /\ started' = started + 1
  /\ UNCHANGED << selections, loop, HUB_VALIDATORS_AVAILABLE, bot >>

\* DELETE /sessions/{session_id}
DeleteSession(session_id) ==
  /\ LET c == clear_session(sessions, message_counts, session_id)
     IN  /\ sessions' = c.sessions
         /\ message_counts' = c.message_counts
         /\ request' = [ endpoint |-> "DELETE /sessions/{session_id}",
                         session_id |-> session_id,
                         status |-> IF c.result THEN 200 ELSE 404,
                         message_count |-> 0, listed |-> {},
                         cleared |-> c.cleared ]
         /\ turn' = IF c.result
                      THEN [NoTurn EXCEPT !.op = "clear",
                              !.memory_before = sessions[session_id].memory,
                              !.history_before = sessions[session_id].response_history]
                      ELSE NoTurn
  /\ UNCHANGED << selections, loop, HUB_VALIDATORS_AVAILABLE, bot, started >>

RECURSIVE ClearAll(_, _, _)
ClearAll(s, counts, session_ids) ==
  IF session_ids = {} THEN [ sessions |-> s, message_counts |-> counts ]
  ELSE LET sid == CHOOSE x \in session_ids : TRUE
           c == clear_session(s, counts, sid)
       IN  ClearAll(c.sessions, c.message_counts, session_ids \ {sid})

\* DELETE /sessions
DeleteAllSessions ==
  /\ LET c == ClearAll(sessions, message_counts, DOMAIN sessions)
     IN  /\ sessions' = c.sessions
         /\ message_counts' = c.message_counts
  /\ request' = [ endpoint |-> "DELETE /sessions", session_id |-> "",
                  status |-> 200, message_count |-> Cardinality(DOMAIN sessions),
                  listed |-> {}, cleared |-> NoBot ]
  /\ turn' = NoTurn
  /\ UNCHANGED << selections, loop, HUB_VALIDATORS_AVAILABLE, bot, started >>

\* GET /sessions
GetSessions ==
  /\ request' = [ endpoint |-> "GET /sessions", session_id |-> "",
                  status |-> 200, message_count |-> 0,
                  listed |-> list_sessions(sessions, message_counts),
                  cleared |-> NoBot ]
  /\ turn' = NoTurn
  /\ UNCHANGED << selections, loop, HUB_VALIDATORS_AVAILABLE, sessions, message_counts, bot, started >>

Next ==
  \/ \E id \in CallerIds \cup {NoSessionId}, q \in RestQueries : PostChat(id, q)
  \/ \E id \in CallerIds \cup {NoSessionId} : PostChatConstructionFails(id)
  \/ \E q \in RestQueries : PostTestSecurity(q)
  \/ \E id \in SessionIds : DeleteSession(id)
  \/ DeleteAllSessions
  \/ GetSessions

Spec == InitRest /\ [][Next]_vars

----------------------------------------------------------------------------
(* A run of confidential_info declines on one assistant: the turns of a    *)
(* caller who keeps asking for confidential information.                   *)

RunTurn(user_query) ==
  /\ started < MaxRun
  /\ \E r \in chat(bot, user_query) :
       /\ r.turn.outcome = "Declined"
       /\ r.turn.category = "confidential_info"
       /\ bot' = r.bot
       /\ turn' = r.turn
  /\ started' = started + 1
  /\ UNCHANGED << selections, loop, HUB_VALIDATORS_AVAILABLE, sessions, message_counts, request >>

NextRun == \E q \in Queries : RunTurn(q)

SpecRun == InitAssistant /\ [][NextRun]_vars

----------------------------------------------------------------------------
(* fast_api.py under uvicorn: one process, one event loop.  Requests       *)
(* arrive and wait; the loop starts the handler of a waiting request when  *)
(* no handler holds it.  A turn that reaches the chain call waits there    *)
(* for the retrieval and the generation engine, which answer, raise, or    *)
(* stay silent; the llm is built without a timeout (api.py:269-274).       *)

\* the session ids the concurrent callers of /chat send
LoopIds == { "s1", TestSessionId }

\* (mutant) the handler awaits the chain call, and hands the loop back
suspended_during_chain(task) == TRUE

\* whether a handler in progress has handed the loop back: the handlers
\* are coroutines that call bot.chat directly and never await
suspended(task) == FALSE

\* the event loop is free to start a handler
event_loop_free(inflight) == \A task \in inflight : suspended(task)

\* Steps 1 and 2 of chat: the turn declined, or ready for the chain call
chat_until_chain(b, user_query) ==
  LET t0 == StartedTurn(b, user_query)
  IN  UNION { LET t1 == [t0 EXCEPT !.input_validate_calls = 1,
                                   !.input_error = v.message]
              IN  IF v.raised
                    THEN { [ done |-> TRUE, out |-> d, safe_query |-> "" ] :
                           d \in Declined(b, t1, CategoryOf[v.message]) }
                  ELSE IF t0.intent = "confidential_info"
                    THEN { [ done |-> TRUE, out |-> d, safe_query |-> "" ] :
                           d \in Declined(b, t1, "confidential_info") }
                  ELSE { [ done |-> FALSE, out |-> [ bot |-> b, turn |-> t1 ],
                           safe_query |-> v.validated_output ] } :
              v \in VerdictsOf[b.input_validators][user_query] }

\* requests that have arrived so far
Arrived == started + Cardinality(loop.pending)

\* a POST /chat request arrives
ArriveChat(session_id, message) ==
  /\ Arrived < MaxServed
  /\ loop' = [loop EXCEPT !.pending = @ \cup
                { [ id |-> Arrived + 1, endpoint |-> "POST /chat",
                    session_id |-> session_id, message |-> message ] }]
  /\ UNCHANGED << selections, HUB_VALIDATORS_AVAILABLE, sessions, message_counts, bot,
                  turn, request, started >>

\* a POST /test-security request arrives
ArriveTestSecurity(message) ==
  /\ Arrived < MaxServed
  /\ loop' = [loop EXCEPT !.pending = @ \cup
                { [ id |-> Arrived + 1, endpoint |-> "POST /test-security",
                    session_id |-> TestSessionId, message |-> message ] }]
  /\ UNCHANGED << selections, HUB_VALIDATORS_AVAILABLE, sessions, message_counts, bot,
                  turn, request, started >>

\* the rest of a handler once bot.chat has returned: the count (POST /chat
\* only) and the response
Respond(req, s, counts, out) ==
  LET counted == IF req.endpoint = "POST /chat"
                   THEN increment_message_count(counts, req.session_id)
                   ELSE counts
  IN  /\ sessions' = Put(s, req.session_id, out.bot)
      /\ message_counts' = counted
      /\ turn' = out.turn
      /\ request' = [ endpoint |-> req.endpoint, session_id |-> req.session_id,
                      status |-> 200,
                      message_count |->
                        IF req.endpoint = "POST /chat"
                          THEN get_message_count(counted, req.session_id)
                          ELSE 0,
                      listed |-> {}, cleared |-> NoBot ]

\* the loop starts the handler of a waiting request: the session, then
\* bot.chat up to a decline or to the chain call
TurnBegins(req) ==
  /\ req \in loop.pending
  /\ event_loop_free(loop.inflight)
  /\ LET g == get_or_create_session(sessions, message_counts, req.session_id)
     IN  \E c \in chat_until_chain(g.sessions[req.session_id], req.message) :
           IF c.done
             THEN /\ Respond(req, g.sessions, g.message_counts, c.out)
                  /\ loop' = [loop EXCEPT !.pending = @ \ {req},
                                          !.last_started = req]
             ELSE /\ sessions' = g.sessions
                  /\ message_counts' = g.message_counts
                  /\ loop' = [loop EXCEPT
                                !.pending = @ \ {req},
                                !.inflight = @ \cup
                                  { [ req |-> req, turn |-> c.out.turn,
                                      safe_query |-> c.safe_query ] },
                                !.last_started = req]
                  /\ UNCHANGED << turn, request >>
  /\ started' = started + 1
  /\ UNCHANGED << selections, HUB_VALIDATORS_AVAILABLE, bot >>

\* the chain call of a turn in progress returns or raises, and the handler
\* runs to its end
EngineResponds(task) ==
  /\ task \in loop.inflight
  /\ \E r \in GenerationStep(sessions[task.req.session_id], task.turn,
                             task.safe_query) :
       Respond(task.req, sessions, message_counts, r)
  /\ loop' = [loop EXCEPT !.inflight = @ \ {task}]
  /\ UNCHANGED << selections, HUB_VALIDATORS_AVAILABLE, bot, started >>

NextLoop ==
  \/ \E id \in LoopIds, q \in RestQueries : ArriveChat(id, q)
  \/ \E q \in RestQueries : ArriveTestSecurity(q)
  \/ \E req \in loop.pending : TurnBegins(req)
  \/ \E task \in loop.inflight : EngineResponds(task)

SpecLoop == InitRest /\ [][NextLoop]_vars

\* the same, the loop never leaving a waiting request unserved while it is
\* free; nothing is assumed of the engine
SpecLoopLive ==
  SpecLoop /\ WF_vars(\E req \in loop.pending : TurnBegins(req))

----------------------------------------------------------------------------
(* The response handler of one assistant, called as chat calls it on its  *)
(* decline paths, long enough for its history to fill and turn over.      *)

\* the categories asked for and the position random.choice picks in the
\* list of candidates (counted round the list when it is shorter): a known
\* category, and one that is in no pool
SelectInputs ==
  { [ category |-> "confidential_info", pick |-> 1 ],
    [ category |-> "no_such_category",  pick |-> 2 ] }

\* self.response_handler.get_varied_decline(category)
SelectDecline(category, pick) ==
  /\ started < MaxSelections
  /\ LET candidates == available_responses(bot.response_history, category)
     IN  \E d \in get_varied_decline(bot.response_history, category) :
              /\ d.selected = candidates[((pick - 1) % Len(candidates)) + 1]
              /\ bot' = [bot EXCEPT !.response_history = d.response_history]
              /\ turn' = [NoTurn EXCEPT !.op = "select",
                                        !.category = category,
                                        !.reply = d.selected,
                                        !.memory_before = bot.memory,
                                        !.history_before = bot.response_history]
              /\ selections' = Append(selections, d.selected)
  /\ started' = started + 1
  /\ UNCHANGED << loop, HUB_VALIDATORS_AVAILABLE, sessions, message_counts, request >>

\* clear_memory between the selections
ClearHistory ==
  /\ selections # <<>>
  /\ bot' = clear_memory(bot)
  /\ turn' = [NoTurn EXCEPT !.op = "clear",
                            !.memory_before = bot.memory,
                            !.history_before = bot.response_history]
  /\ selections' = <<>>
  /\ UNCHANGED << loop, HUB_VALIDATORS_AVAILABLE, sessions, message_counts,
                  request, started >>

NextHistory ==
  \/ \E i \in SelectInputs : SelectDecline(i.category, i.pick)
  \/ ClearHistory

SpecHistory == InitAssistant /\ [][NextHistory]_vars

----------------------------------------------------------------------------
(* The assistant of "test_session", which every /test-security caller     *)
(* shares, under concurrent requests that are declined.  Here the decline *)
(* selection is taken statement by statement: the choice, the append, the *)
(* cut.  The event loop decides which handler may run.                    *)

\* the message of the concurrent callers: a text that is declined
SharedQueries == { "Admin login" }

\* self.response_history.append(selected)
append_selected(response_history, selected) == Append(response_history, selected)

\* if len(self.response_history) > self.max_history: pop(0)
cut_history(response_history) ==
  IF Len(response_history) > max_history
    THEN Tail(response_history)
    ELSE response_history

\* the concurrent callers of /test-security; each sends its next request
\* when it has the response to the last
Callers == { "caller_a", "caller_b" }

\* the requests that wait or are being handled
Outstanding(l) == l.pending \cup { task.req : task \in l.inflight }

\* a caller's POST /test-security request arrives
ArriveShared(caller, message) ==
  /\ started < MaxSelections
  /\ \A req \in Outstanding(loop) : req.id # caller
  /\ loop' = [loop EXCEPT !.pending = @ \cup
                { [ id |-> caller, endpoint |-> "POST /test-security",
                    session_id |-> TestSessionId, message |-> message ] }]
  /\ UNCHANGED << selections, HUB_VALIDATORS_AVAILABLE, sessions,
                  message_counts, bot, turn, request, started >>

\* the loop starts a handler: the session, bot.chat up to its decline, and
\* get_varied_decline up to random.choice, which takes the first candidate
SelectionBegins(req) ==
  /\ started < MaxSelections
  /\ req \in loop.pending
  /\ event_loop_free(loop.inflight)
  /\ LET g == get_or_create_session(sessions, message_counts, req.session_id)
         b == g.sessions[req.session_id]
     IN  \E c \in chat_until_chain(b, req.message) :
           /\ c.done
           /\ c.out.turn.reply
                = available_responses(b.response_history,
                                      c.out.turn.category)[1]
           /\ sessions' = g.sessions
           /\ message_counts' = g.message_counts
           /\ selections' = Append(selections, c.out.turn.reply)
           /\ loop' = [loop EXCEPT
                         !.pending = @ \ {req},
                         !.inflight = @ \cup
                           { [ req |-> req, stage |-> "chosen",
                               turn |-> c.out.turn ] },
                         !.last_started = req]
  /\ started' = started + 1
  /\ UNCHANGED << HUB_VALIDATORS_AVAILABLE, bot, turn, request >>

\* the selection of a handler in progress is appended
SelectionAppends(task) ==
  /\ task \in loop.inflight
  /\ task.stage = "chosen"
  /\ LET b == sessions[task.req.session_id]
     IN  sessions' = Put(sessions, task.req.session_id,
                         [b EXCEPT !.response_history =
                                     append_selected(@, task.turn.reply)])
  /\ loop' = [loop EXCEPT !.inflight =
                (@ \ {task}) \cup {[task EXCEPT !.stage = "appended"]}]
  /\ UNCHANGED << selections, HUB_VALIDATORS_AVAILABLE, message_counts, bot,
                  turn, request, started >>

\* the history is cut to max_history and the handler returns its response
SelectionEnds(task) ==
  /\ task \in loop.inflight
  /\ task.stage = "appended"
  /\ LET b == sessions[task.req.session_id]
     IN  Respond(task.req, sessions, message_counts,
                 [ bot  |-> [b EXCEPT !.response_history = cut_history(@)],
                   turn |-> task.turn ])
  /\ loop' = [loop EXCEPT !.inflight = @ \ {task}]
  /\ UNCHANGED << selections, HUB_VALIDATORS_AVAILABLE, bot, started >>

NextShared ==
  \/ \E caller \in Callers, q \in SharedQueries : ArriveShared(caller, q)
  \/ \E req \in loop.pending : SelectionBegins(req)
  \/ \E task \in loop.inflight : SelectionAppends(task)
  \/ \E task \in loop.inflight : SelectionEnds(task)

SpecShared == InitRest /\ [][NextShared]_vars

----------------------------------------------------------------------------
(* One assistant asked an ordinary question and a confidential one, in any *)
(* order: the turns that draw a starter, on every decline history.         *)

\* an ordinary question and one that is declined
StarterQueries == { "hello", "Admin login" }

NextStarter ==
  \/ \E q \in StarterQueries : BotChat(q)
  \/ BotClear

SpecStarter == InitAssistant /\ [][NextStarter]_vars

----------------------------------------------------------------------------
(* A run of consecutive declines of one category on a new handler, with    *)
(* every choice random.choice can make among the candidates.               *)

\* the categories of the runs: every pool of DECLINE_RESPONSES
RunCategories == DOMAIN DECLINE_RESPONSES

\* self.response_handler.get_varied_decline(category), the category being
\* that of the declines before it
DeclineInRun(category) ==
  /\ started < MaxRun
  /\ selections # <<>> => turn.category = category
  /\ \E d \in get_varied_decline(bot.response_history, category) :
       /\ bot' = [bot EXCEPT !.response_history = d.response_history]
       /\ turn' = [NoTurn EXCEPT !.op = "select",
                                 !.category = category,
                                 !.reply = d.selected,
                                 !.memory_before = bot.memory,
                                 !.history_before = bot.response_history]
       /\ selections' = Append(selections, d.selected)
  /\ started' = started + 1
  /\ UNCHANGED << loop, HUB_VALIDATORS_AVAILABLE, sessions, message_counts, request >>

NextCategoryRun == \E category \in RunCategories : DeclineInRun(category)

SpecCategoryRun == InitAssistant /\ [][NextCategoryRun]_vars

----------------------------------------------------------------------------
(* The properties.  The sample texts are classified here from their        *)
(* content, apart from the operators of the assistant.                     *)

KeywordQueries ==
  { q \in Queries : \E k \in Range(confidential_keywords) : Contains(Lower(q), k) }

PIIQueries == { q \in Queries : \E e \in PII_ENTITIES : Contains(q, e.span) }

StarterPrefixed(a) ==
  { CONVERSATION_STARTERS[i] \o " " \o a : i \in 1..Len(CONVERSATION_STARTERS) }

ChatTurn == turn.op = "chat"

\* C1: a turn whose text contains a confidential keyword calls neither the
\* retrieval collaborator nor the generation engine, whatever the input
\* validator does and whatever the history and the transcript hold.
C1_KeywordTurnCallsNoEngine ==
  (ChatTurn /\ turn.query \in KeywordQueries) =>
     /\ ~turn.chain_called
     /\ turn.retrieval_calls = 0
     /\ turn.generation_calls = 0

\* C1 witness: an upper-case keyword query was declined after an earlier
\* turn had put an exchange in the transcript.
C1_Witness ==
  /\ ChatTurn /\ turn.query = "Admin login"
  /\ turn.outcome = "Declined"
  /\ turn.memory_before # <<>>

\* the detectors did their work in the turn: none of them broke down
DetectorsWorked == turn.input_error \notin CrashMessages

\* C2 (as claimed): every turn whose text contains a confidential keyword,
\* PII or toxic words in it or not, ends Declined with category
\* confidential_info and a reply of the confidential_info pool.  Stated for
\* the turns in which the detectors work, where the claim already fails.
C2_KeywordTurnDeclinedConfidential ==
  (ChatTurn /\ turn.query \in KeywordQueries /\ DetectorsWorked) =>
     /\ turn.outcome = "Declined"
     /\ turn.category = "confidential_info"
     /\ turn.reply \in Range(DECLINE_RESPONSES.confidential_info)

\* C3 (as claimed): in every configuration a turn whose text contains a PII
\* pattern ends Declined with category pii_detected and a reply of the
\* pii_detected pool.  Stated for the turns in which the detectors work,
\* where the claim already fails.
C3_PIITurnDeclinedPII ==
  (ChatTurn /\ turn.query \in PIIQueries /\ DetectorsWorked) =>
     /\ turn.outcome = "Declined"
     /\ turn.category = "pii_detected"
     /\ turn.reply \in Range(DECLINE_RESPONSES.pii_detected)

\* C4: when the output validation of a turn fails, the turn ends Declined
\* with a reply of the off_topic pool, and the reply is not the generated
\* answer, with or without its starter.
C4_FailedOutputIsDeclined ==
  (ChatTurn /\ turn.output_validate_calls = 1 /\ turn.output_error # "") =>
     /\ turn.outcome = "Declined"
     /\ turn.category = "off_topic"
     /\ turn.reply \in Range(DECLINE_RESPONSES.off_topic)
     /\ turn.reply \notin { turn.answer, turn.response }

\* C4 witness: the output validation failed on an answer that holds PII.
C4_Witness ==
  /\ ChatTurn /\ turn.output_error # ""
  /\ turn.answer = "Ask bob@x.io"
  /\ turn.outcome = "Declined"

\* C5 (as claimed): a turn that ends Declined or FallbackDelivered leaves
\* the transcript as it was before the turn.
C5_TranscriptChangesOnlyOnDelivered ==
  (ChatTurn /\ turn.outcome \in {"Declined", "FallbackDelivered"}) =>
     bot.memory = turn.memory_before

\* C6: when the retrieval or the generation engine raises, a timeout
\* included, chat returns the fixed, non-empty fallback message, the turn
\* ends FallbackDelivered, and the transcript is as it was before the turn.
C6_EngineFailureGivesFallback ==
  (ChatTurn /\ turn.chain_called /\ turn.chain_error # "") =>
     /\ turn.outcome = "FallbackDelivered"
     /\ turn.reply = FALLBACK_MESSAGE
     /\ Len(turn.reply) > 0
     /\ bot.memory = turn.memory_before

\* C6 witness: the engine timed out in a turn that had a transcript to keep.
C6_Witness ==
  /\ ChatTurn /\ turn.chain_error = "engine timeout"
  /\ turn.outcome = "FallbackDelivered"
  /\ turn.memory_before # <<>>

\* C7 (as claimed): after a turn that ends Delivered the last two transcript
\* entries are the user query and an assistant entry whose text is the
\* reply returned for the turn.
C7_TranscriptEndsWithReply ==
  (ChatTurn /\ turn.outcome = "Delivered") =>
     /\ Len(bot.memory) >= 2
     /\ bot.memory[Len(bot.memory) - 1] = [role |-> "user", text |-> turn.query]
     /\ bot.memory[Len(bot.memory)] = [role |-> "assistant", text |-> turn.reply]

\* C8: after one Delivered turn with input q on an assistant whose
\* transcript was empty, the generator having answered a, the transcript
\* is one user entry q and one assistant entry a or a starter and a.
C8_RoundTrip ==
  (ChatTurn /\ turn.outcome = "Delivered" /\ turn.memory_before = <<>>) =>
     /\ Len(bot.memory) = 2
     /\ bot.memory[1] = [role |-> "user", text |-> turn.query]
     /\ bot.memory[2].role = "assistant"
     /\ bot.memory[2].text \in {turn.answer} \cup StarterPrefixed(turn.answer)

\* C8 witness: the first turn of a new assistant was delivered with a
\* starter in front of the answer.
C8_Witness ==
  /\ ChatTurn /\ turn.outcome = "Delivered"
  /\ turn.memory_before = <<>> /\ turn.history_before = <<>>
  /\ turn.query = "hello" /\ turn.answer = "Hi there"
  /\ turn.starter # ""

\* C9 (as claimed): in a run of confidential_info declines from an empty
\* history no decline reply equals the reply of the decline before it.
C9_NoConsecutiveRepeatInSix ==
  [][ (turn.outcome = "Declined" /\ turn'.outcome = "Declined")
        => turn'.reply # turn.reply ]_vars

\* C9 (amended): the same for the first five declines of the run; the
\* sixth may repeat the fifth.
C9_NoConsecutiveRepeatInFirstFive ==
  [][ (turn.outcome = "Declined" /\ turn'.outcome = "Declined"
         /\ started' <= RECENT_WINDOW)
        => turn'.reply # turn.reply ]_vars

\* C9 witness: the fifth decline of a run has been returned.
C9_Witness ==
  /\ started = RECENT_WINDOW
  /\ turn.outcome = "Declined" /\ turn.category = "confidential_info"
  /\ Len(turn.history_before) = RECENT_WINDOW - 1

IsDelete(r) == r.endpoint = "DELETE /sessions/{session_id}" /\ r.status = 200

\* C10: a cleared session has an empty transcript and an empty decline
\* history and is gone from the registry; the next turn on its id starts
\* from an empty transcript and an empty history, so that its generation
\* sees no earlier turn and its decline draws from the whole pool.
C10_ClearResets ==
  [][ /\ IsDelete(request') =>
           /\ request'.cleared.memory = <<>>
           /\ request'.cleared.response_history = <<>>
           /\ request'.session_id \notin DOMAIN sessions'
      /\ ( /\ IsDelete(request)
           /\ request'.endpoint \in {"POST /chat", "POST /test-security"}
           /\ request'.status = 200
           /\ request'.session_id = request.session_id ) =>
           /\ turn'.memory_before = <<>>
           /\ turn'.history_before = <<>>
           /\ turn'.chain_history = <<>>
           /\ turn'.outcome = "Declined" =>
                \E d \in get_varied_decline(turn'.history_before, turn'.category) :
                   d.selected = turn'.reply
           /\ turn'.outcome = "Declined" =>
                Range(available_responses(turn'.history_before, turn'.category))
                  = Range(PoolOf(turn'.category)) ]_vars

\* C10 witness: a session whose transcript and decline history were both
\* non-empty has been cleared.
C10_Witness ==
  /\ IsDelete(request)
  /\ turn.memory_before # <<>>
  /\ turn.history_before # <<>>

TerminalOutcomes == { "Declined", "FallbackDelivered", "Delivered" }

\* C11: whichever collaborator fails in a turn (the input validator, the
\* retrieval or the generation, the output validator), chat returns a text
\* reply and lets no exception out: a failed input or output validation
\* ends the turn Declined with a reply of a decline pool, a failed
\* retrieval or generation ends it FallbackDelivered.
C11_EveryFailureIsAnswered ==
  ChatTurn =>
     /\ turn.outcome \in TerminalOutcomes
     /\ turn.outcome = "FallbackDelivered" => turn.reply = FALLBACK_MESSAGE
     /\ turn.input_error # "" => turn.outcome = "Declined"
     /\ turn.chain_error # "" => turn.outcome = "FallbackDelivered"
     /\ turn.output_error # "" => turn.outcome = "Declined"
     /\ turn.outcome = "Declined" =>
          turn.reply \in Range(PoolOf(turn.category))

\* C11 witness: the input validator let the text through, the engine
\* answered, and the output validator broke down with an error of its own.
C11_Witness ==
  /\ ChatTurn /\ turn.input_error = "" /\ turn.chain_error = ""
  /\ turn.output_error \in CrashMessages
  /\ turn.outcome = "Declined"

\* C12 (as claimed): no registered assistant has an empty list of input
\* detectors or an empty list of output detectors; when the detectors
\* cannot be had at startup, no assistant is made.
C12_NoAssistantWithoutDetectors ==
  \A sid \in DOMAIN sessions :
     /\ sessions[sid].input_validators # <<>>
     /\ sessions[sid].output_validators # <<>>

\* C13 (as claimed): no reply of a turn that ends Delivered holds a PII
\* span the detector finds: a span in the generated answer is redacted
\* before the reply is returned.
C13_DeliveredReplyHoldsNoPII ==
  (ChatTurn /\ turn.outcome = "Delivered") => DetectPII_finds(turn.reply) = {}

\* the requests that act on one session: a turn or a clear
OnOneSession(r) ==
  r.endpoint \in { "POST /chat", "POST /test-security",
                   "DELETE /sessions/{session_id}" }

\* C14: a turn or a clear on one session leaves every other session as it
\* was: registered or not, and with the same transcript, the same decline
\* history and the same message count.
C14_SessionIsolation ==
  [][ OnOneSession(request') =>
        \A other \in SessionIds \ {request'.session_id} :
           /\ (other \in DOMAIN sessions') = (other \in DOMAIN sessions)
           /\ other \in DOMAIN sessions =>
                /\ sessions'[other].memory = sessions[other].memory
                /\ sessions'[other].response_history
                     = sessions[other].response_history
           /\ (other \in DOMAIN message_counts')
                = (other \in DOMAIN message_counts)
           /\ get_message_count(message_counts', other)
                = get_message_count(message_counts, other) ]_vars

\* C14 witness: a session was cleared while another session held a
\* transcript, a decline history or a message count.
C14_Witness ==
  /\ IsDelete(request)
  /\ \E other \in DOMAIN sessions \ {request.session_id} :
        \/ sessions[other].memory # <<>>
        \/ sessions[other].response_history # <<>>
        \/ get_message_count(message_counts, other) > 0

\* the assistant as it was when the last turn started
BotBeforeTurn(b) ==
  [b EXCEPT !.memory = turn.memory_before,
            !.response_history = turn.history_before]

\* C17: the reply of a turn whose retrieval or generation failed does not
\* depend on the failure: every turn on the same assistant with the same
\* text that fails with another error returns the same reply, and the
\* reply holds the text of no error.
C17_FallbackIndependentOfError ==
  (ChatTurn /\ turn.chain_error # "") =>
     /\ \A e \in ChainErrors : ~Contains(turn.reply, e)
     /\ \A r \in chat(BotBeforeTurn(bot), turn.query) :
          r.turn.chain_error # "" => r.turn.reply = turn.reply

\* C17 witness: a turn failed with one of several possible errors.
C17_Witness ==
  /\ ChatTurn /\ turn.chain_error = "retrieval error"
  /\ \E r \in chat(BotBeforeTurn(bot), turn.query) :
        r.turn.chain_error = "engine error"

IsList(r) == r.endpoint = "GET /sessions"

\* the (session id, message count) pairs of a listing
ListedPairs(listed) == { << l.session_id, l.message_count >> : l \in listed }

\* C18: listing the sessions changes neither the registry nor the counts;
\* it returns the registered ids, each with its count, and a second listing
\* with no request in between returns the same pairs.
C18_ListIsReadOnlyAndIdempotent ==
  [][ IsList(request') =>
        /\ sessions' = sessions
        /\ message_counts' = message_counts
        /\ ListedPairs(request'.listed)
             = { << sid, IF sid \in DOMAIN message_counts
                           THEN message_counts[sid] ELSE 0 >> :
                 sid \in DOMAIN sessions }
        /\ ListedPairs(list_sessions(sessions', message_counts'))
             = ListedPairs(request'.listed) ]_vars

\* C18 witness: a listing returned a session with a count while the id of
\* a cleared session was still among the counts.
C18_Witness ==
  /\ IsList(request)
  /\ \E l \in request.listed : l.message_count > 0
  /\ DOMAIN message_counts # DOMAIN sessions

\* the request served a message on session sid
ServedOn(r, sid) ==
  /\ r.endpoint \in { "POST /chat", "POST /test-security" }
  /\ r.status = 200
  /\ r.session_id = sid

\* the request cleared session sid: alone, or with all the others
ClearedBy(r, sid) ==
  \/ IsDelete(r) /\ r.session_id = sid
  \/ r.endpoint = "DELETE /sessions"

IsChat(r) == r.endpoint = "POST /chat" /\ r.status = 200

\* C20: the message count a served /chat request returns is 1 for a session
\* the request creates and one more than the session's count otherwise,
\* whatever the outcome of the turn; the count kept for the session is the
\* count returned, and no other request but a clear changes the count of
\* a registered session.  So from creation to the next clear the counts
\* returned are 1, 2, 3, ...
C20_MessageCountStepsByOne ==
  [][ /\ IsChat(request') =>
           /\ turn'.outcome \in TerminalOutcomes
           /\ request'.message_count =
                IF request'.session_id \in DOMAIN sessions
                  THEN message_counts[request'.session_id] + 1
                  ELSE 1
           /\ message_counts'[request'.session_id] = request'.message_count
      /\ \A sid \in DOMAIN sessions :
           (~(IsChat(request') /\ request'.session_id = sid)
              /\ ~ClearedBy(request', sid)) =>
             /\ sid \in DOMAIN sessions'
             /\ message_counts'[sid] = message_counts[sid] ]_vars

\* C20 witness: the second /chat request of a session returned 2 after a
\* turn that was declined.
C20_Witness ==
  /\ IsChat(request) /\ request.message_count = 2
  /\ turn.outcome = "Declined"

\* the turns in progress on session sid
InFlightOn(l, sid) == { task \in l.inflight : task.req.session_id = sid }

\* C15: whatever the order in which concurrent requests arrive and are
\* started, no turn starts on a session while an earlier turn on that
\* session is in progress: the earlier turn has reached its terminal state
\* and written the transcript, and the new turn starts from that
\* transcript.
C15_TurnsOnOneSessionSerialized ==
  [][ started' = started + 1 =>
        LET sid == loop'.last_started.session_id
        IN  /\ InFlightOn(loop, sid) = {}
            /\ \A task \in InFlightOn(loop', sid) :
                 /\ task.req = loop'.last_started
                 /\ sid \in DOMAIN sessions =>
                      task.turn.memory_before = sessions[sid].memory ]_vars

\* C15 witness: two requests for one session were waiting together, one of
\* them while the turn of the other was in progress; both were started,
\* the second after the transcript had the exchange of the first.
C15_Witness ==
  /\ started = 2 /\ loop.pending = {}
  /\ \E task \in loop.inflight :
        /\ task.req.id = 1
        /\ task.req.session_id = TestSessionId
        /\ task.turn.memory_before # <<>>

\* a turn has started and has not reached a terminal state
TurnInProgress == loop.inflight # {}

\* C16 (as claimed): every turn that has started reaches a terminal state,
\* the engine answering or not: a turn that waits for the retrieval or the
\* generation is ended by a timeout, as FallbackDelivered.
C16_EveryStartedTurnEnds == TurnInProgress ~> ~TurnInProgress

\* C21 (as claimed): the verdict of the intent classifier is acted on
\* before the input validator runs: in a turn whose text is classified
\* confidential_info the input validator is not invoked.
C21_ConfidentialTurnSkipsInputValidator ==
  (ChatTurn /\ turn.intent = "confidential_info") =>
     turn.input_validate_calls = 0

\* C25: a turn that ends Delivered or FallbackDelivered leaves the decline
\* history as it was; a turn that ends Declined adds one entry to it, the
\* reply returned for the turn, at its end (the oldest entry leaving when
\* the history is full).
C25_HistoryChangesOnlyOnDecline ==
  ChatTurn =>
     /\ turn.outcome \in {"Delivered", "FallbackDelivered"} =>
          bot.response_history = turn.history_before
     /\ turn.outcome = "Declined" =>
          /\ bot.response_history
               = LastN(turn.history_before \o << turn.reply >>, max_history)
          /\ Len(turn.history_before) < max_history =>
               Len(bot.response_history) = Len(turn.history_before) + 1

\* C25 witness: a turn was delivered on an assistant that had declined
\* before, and its history kept the earlier decline.
C25_Witness ==
  /\ ChatTurn /\ turn.outcome = "Delivered"
  /\ turn.history_before # <<>>
  /\ bot.response_history = turn.history_before

StartsWith(text, prefix) ==
  /\ Len(text) >= Len(prefix)
  /\ SubSeq(text, 1, Len(prefix)) = prefix

\* every entry of every decline pool
AllDeclineTexts ==
  UNION { Range(DECLINE_RESPONSES[c]) : c \in DOMAIN DECLINE_RESPONSES }

\* C26: a starter is put in front of a reply on the success path only: the
\* reply of a turn that ends Declined is an entry of a decline pool as it
\* stands, the reply of a turn that ends FallbackDelivered is the fallback
\* message as it stands, and neither begins with a starter, also when a
\* starter had been drawn before the output validator rejected the text.
C26_StarterOnlyOnSuccess ==
  ChatTurn =>
     /\ turn.outcome = "Declined" => turn.reply \in AllDeclineTexts
     /\ turn.outcome = "FallbackDelivered" =>
          /\ turn.reply = FALLBACK_MESSAGE
          /\ turn.starter = ""
     /\ turn.outcome \in {"Declined", "FallbackDelivered"} =>
          \A i \in 1..Len(CONVERSATION_STARTERS) :
             ~StartsWith(turn.reply, CONVERSATION_STARTERS[i])

\* C26 witness: a starter was drawn, the output validator then failed, and
\* the turn was declined.
C26_Witness ==
  /\ ChatTurn /\ turn.starter # ""
  /\ turn.output_error # ""
  /\ turn.outcome = "Declined"

\* the category the failure of the input validator calls for: the detector
\* that fired (DetectPII runs first), off_topic when the validator broke
\* down otherwise
FailureCategory(query, input_error) ==
  IF input_error \in CrashMessages THEN "off_topic"
  ELSE IF query \in PIIQueries THEN "pii_detected"
  ELSE "toxic_language"

\* C27 (as claimed): when the input validator fails, the failure gives the
\* category of the decline: pii_detected for a PII failure, toxic_language
\* for a toxicity failure, off_topic for every other failure; the reply is
\* an entry of the pool of that category.
C27_DeclineCategoryFollowsFailure ==
  (ChatTurn /\ turn.input_error # "") =>
     /\ turn.outcome = "Declined"
     /\ turn.category = FailureCategory(turn.query, turn.input_error)
     /\ turn.reply \in Range(PoolOf(turn.category))

\* C28: in a turn, retrieval and generation are called only when the input
\* validator has passed the text of the turn, the output validator is
\* called only when the engine has returned an answer in the turn, and a
\* turn ends Delivered only when both validators have passed.
C28_StagesInOrder ==
  ChatTurn =>
     /\ (turn.chain_called \/ turn.retrieval_calls > 0
           \/ turn.generation_calls > 0) =>
          /\ turn.input_validate_calls = 1
          /\ turn.input_error = ""
     /\ turn.output_validate_calls > 0 =>
          /\ turn.chain_called /\ turn.generation_calls = 1
          /\ turn.chain_error = ""
          /\ turn.answer \in Answers
     /\ turn.outcome = "Delivered" =>
          /\ turn.input_validate_calls = 1 /\ turn.input_error = ""
          /\ turn.output_validate_calls = 1 /\ turn.output_error = ""

\* C28 witness: with the detectors installed, a turn went through the
\* input validator, the engine and the output validator, which redacted
\* the answer, and was delivered.
C28_Witness ==
  /\ ChatTurn /\ HUB_VALIDATORS_AVAILABLE
  /\ turn.outcome = "Delivered"
  /\ turn.answer = "Ask bob@x.io" /\ turn.reply # turn.response

\* C30: the classifier returns confidential_info exactly for the texts
\* whose lower-cased form holds one of the keywords, and normal for the
\* others; its verdict depends on the text alone, whatever the transcript
\* and the history of the assistant hold and whatever the detectors do.
C30_ClassifierMatchesKeywords ==
  ChatTurn =>
     /\ turn.intent \in {"confidential_info", "normal"}
     /\ turn.intent = "confidential_info" <=> turn.query \in KeywordQueries
     /\ \A q \in Queries :
          IntentOf[q] = "confidential_info" <=> q \in KeywordQueries

\* C30 witness: a text with a keyword and an e-mail address was classified
\* confidential_info in a turn that the input validator declined for PII,
\* on an assistant with a transcript and a history.
C30_Witness ==
  /\ ChatTurn /\ turn.query = "secret of bob@x.io"
  /\ turn.intent = "confidential_info"
  /\ turn.category = "pii_detected"
  /\ turn.memory_before # <<>> /\ turn.history_before # <<>>

\* C22: whatever declines and clears an assistant has gone through, its
\* decline history holds at most 10 entries.
C22_HistoryAtMostTen == Len(bot.response_history) <= 10

\* C22 witness: a decline was selected on a history that held 10 entries.
C22_Witness ==
  /\ turn.op = "select"
  /\ Len(turn.history_before) = 10
  /\ Len(selections) > 10

\* the pool of a category as the claim has it
ClaimedPool(category) ==
  IF category \in {"confidential_info", "pii_detected", "toxic_language",
                   "off_topic"}
    THEN Range(DECLINE_RESPONSES[category])
    ELSE Range(DECLINE_RESPONSES.off_topic)

\* the 5 most recent entries of a history (all of them when it has fewer)
RecentFive(history) ==
  { history[i] : i \in { j \in 1..Len(history) : j > Len(history) - 5 } }

\* C23: every text the selection can return for category c on the history
\* as it was before the call is an entry of the pool of c (of the off_topic
\* pool when c is no known category) and is not among the 5 most recent
\* entries of that history, unless every entry of the pool is among them.
C23_SelectionFromPoolAvoidsRecent ==
  turn.op = "select" =>
     /\ \E d \in get_varied_decline(turn.history_before, turn.category) :
          d.selected = turn.reply
     /\ \A d \in get_varied_decline(turn.history_before, turn.category) :
          /\ d.selected \in ClaimedPool(turn.category)
          /\ \/ d.selected \notin RecentFive(turn.history_before)
             \/ ClaimedPool(turn.category) \subseteq RecentFive(turn.history_before)

\* C23 witness: a category that is in no pool was asked for when the whole
\* off_topic pool was among the 5 most recent entries.
C23_Witness ==
  /\ turn.op = "select" /\ turn.category = "no_such_category"
  /\ ClaimedPool(turn.category) \subseteq RecentFive(turn.history_before)
  /\ turn.reply \in RecentFive(turn.history_before)

\* C24: the decline history is the window of the last 10 selections: after
\* n selections since the assistant was made or last cleared it holds the
\* last min(n, 10) selected strings in the order of selection, the oldest
\* having left when an eleventh came.
C24_HistoryIsLastTenSelections ==
  LET n == Len(selections)
      k == IF n < 10 THEN n ELSE 10
  IN  /\ Len(bot.response_history) = k
      /\ \A i \in 1..k : bot.response_history[i] = selections[n - k + i]

\* C24 witness: an eleventh selection since the last clear pushed the
\* first one out, after an earlier clear.
C24_Witness ==
  /\ turn.op = "select"
  /\ Len(selections) = 11
  /\ bot.response_history[1] = selections[2]
  /\ selections[1] # selections[2]

\* the decline history of the shared assistant
SharedHistory ==
  IF TestSessionId \in DOMAIN sessions
    THEN sessions[TestSessionId].response_history
    ELSE <<>>

\* the selections made before the one in progress
EarlierSelections == SubSeq(selections, 1, Len(selections) - 1)

\* C29: the decline selections of concurrent callers on the shared
\* assistant exclude each other: at most one is in progress, whatever the
\* order of arrival; when none is in progress the history holds at most 10
\* entries, and it holds the last 10 selections once each, in order; a
\* selection in progress has been appended once or not yet, and no other.
C29_SharedSelectionsExcludeEachOther ==
  /\ Cardinality(loop.inflight) <= 1
  /\ loop.inflight = {} =>
       /\ Len(SharedHistory) <= 10
       /\ SharedHistory = LastN(selections, 10)
  /\ \A task \in loop.inflight :
       /\ task.stage = "chosen" =>
            SharedHistory = LastN(EarlierSelections, 10)
       /\ task.stage = "appended" =>
            SharedHistory
              = LastN(EarlierSelections, 10) \o << task.turn.reply >>

\* C29 witness: a selection on a full history was in progress, appended
\* and not yet cut, while another request for the shared assistant waited.
C29_Witness ==
  /\ loop.pending # {}
  /\ \E task \in loop.inflight : task.stage = "appended"
  /\ Len(SharedHistory) = 11

\* the transcript grew by one user entry followed by one assistant entry
OneExchangeAdded(before, after) ==
  /\ Len(after) = Len(before) + 2
  /\ SubSeq(after, 1, Len(before)) = before
  /\ after[Len(before) + 1].role = "user"
  /\ after[Len(before) + 2].role = "assistant"

\* C31: the transcript only grows between clears: every turn leaves the
\* transcript as it was or appends exactly one user entry followed by one
\* assistant entry, so the transcript before a turn is a prefix of the
\* transcript after it; only clear_memory shortens the transcript.
C31_TranscriptAppendOnly ==
  [][ /\ turn'.op = "chat" =>
           /\ turn'.memory_before = bot.memory
           /\ \/ bot'.memory = bot.memory
              \/ OneExchangeAdded(bot.memory, bot'.memory)
      /\ Len(bot'.memory) < Len(bot.memory) => turn'.op = "clear" ]_vars

\* a second exchange was appended to a transcript that held one already
C31_Witness ==
  /\ ChatTurn
  /\ Len(turn.memory_before) = 2
  /\ Len(bot.memory) = 4

\* the starters the turns of assistant b on a text can open their reply with
StartersOf(b, user_query) ==
  { r.turn.starter : r \in chat(b, user_query) } \ { "" }

\* C32: the starter a turn draws is an entry of CONVERSATION_STARTERS; the
\* draw leaves the decline history as it was (the history of a turn that
\* drew a starter changes only if the turn then declines); and the starters
\* that can be drawn are the same whatever the decline history holds.
C32_StarterFromFixedSetIgnoresHistory ==
  (ChatTurn /\ turn.starter # "") =>
     /\ turn.starter \in Range(CONVERSATION_STARTERS)
     /\ turn.outcome # "Declined" =>
           bot.response_history = turn.history_before
     /\ StartersOf(BotBeforeTurn(bot), turn.query)
          = StartersOf([BotBeforeTurn(bot) EXCEPT !.response_history = <<>>],
                       turn.query)

\* a starter was drawn by an assistant whose decline history is not empty
C32_Witness ==
  /\ ChatTurn
  /\ turn.starter # ""
  /\ turn.outcome = "Delivered"
  /\ turn.history_before # <<>>

\* the smaller of two numbers
Smaller(m, n) == IF m < n THEN m ELSE n

\* C33: in a run of consecutive declines of one category on a handler whose
\* history was empty, the first p replies, p being the number of entries of
\* the category's pool (4 or 5), are pairwise distinct, whichever candidates
\* random.choice picks.
C33_FirstPoolfulDistinct ==
  (turn.op = "select" /\ selections # <<>>) =>
     LET p == Len(PoolOf(turn.category))
         n == Smaller(Len(selections), p)
     IN  /\ p \in { 4, 5 }
         /\ \A i, j \in 1..n : i # j => selections[i] # selections[j]

\* a run on a pool of four went past the pool: its first four replies are
\* the four entries, and the fifth repeats one of them
C33_Witness ==
  /\ turn.op = "select"
  /\ turn.category = "toxic_language"
  /\ Len(selections) = 5
  /\ Range(SubSeq(selections, 1, 4)) = Range(DECLINE_RESPONSES["toxic_language"])
  /\ selections[5] \in Range(SubSeq(selections, 1, 4))

\* C34: the message count kept for a registered session is the number of
\* turns its assistant has processed since the session was created: 0 when
\* the session is created, and one more after every request, /chat or
\* /test-security, that has the session's assistant process a turn.
C34_CountEqualsTurnsProcessed ==
  [][ \A sid \in DOMAIN sessions' :
        message_counts'[sid] =
          (IF sid \in DOMAIN sessions THEN message_counts[sid] ELSE 0)
          + (IF ServedOn(request', sid) THEN 1 ELSE 0) ]_vars

\* the request was a /chat that failed with status 500
FailedChat(r) == r.endpoint = "POST /chat" /\ r.status = 500

\* the session ids of a listing
ListedIds(listed) == { l.session_id : l \in listed }

\* C35: a /chat request for a session id that is not registered, the
\* construction of whose assistant fails, leaves the registry as it was:
\* the session map and the message counts are unchanged, the id is in the
\* session map neither before nor after and is not added to the message
\* counts, and a listing that follows does not list it.
C35_FailedConstructionLeavesRegistry ==
  [][ /\ FailedChat(request') =>
           /\ request'.session_id \notin DOMAIN sessions
           /\ sessions' = sessions
           /\ message_counts' = message_counts
           /\ request'.session_id \notin DOMAIN sessions'
           /\ DOMAIN message_counts' = DOMAIN message_counts
           /\ request'.session_id \notin
                ListedIds(list_sessions(sessions', message_counts'))
      /\ (FailedChat(request) /\ IsList(request')) =>
           request.session_id \notin ListedIds(request'.listed) ]_vars

\* the construction failed for an id that was never registered, while
\* another session was registered
C35_Witness ==
  /\ FailedChat(request)
  /\ request.session_id = "s1"
  /\ "s1" \notin DOMAIN message_counts
  /\ DOMAIN sessions = { TestSessionId }

\* the request was a DELETE of one session, whatever its answer
DeleteOne(r) == r.endpoint = "DELETE /sessions/{session_id}"

\* C36: clearing a session id that is not registered fails: clear_session
\* returns False, the request is answered 404, and the session map and the
\* message counts are left as they were; clearing a registered id succeeds.
\* So of two clears of one id in a row, the first succeeding, the second
\* fails.
C36_ClearOfUnknownIdFails ==
  [][ DeleteOne(request') =>
        LET sid == request'.session_id
            c   == clear_session(sessions, message_counts, sid)
        IN  /\ request'.status \in { 200, 404 }
            /\ request'.status = 404 <=> sid \notin DOMAIN sessions
            /\ request'.status = 404 <=> ~c.result
            /\ request'.status = 404 =>
                 /\ sessions' = sessions
                 /\ message_counts' = message_counts
            /\ (IsDelete(request) /\ request.session_id = sid) =>
                 request'.status = 404 ]_vars

\* the second of two clears of s1 failed, while another session is registered
C36_Witness ==
  /\ DeleteOne(request)
  /\ request.status = 404
  /\ request.session_id = "s1"
  /\ "s1" \in DOMAIN message_counts
  /\ DOMAIN sessions = { TestSessionId }
====
